---- MODULE Spec2Model ----
(***************************************************************************)
(* Model of radiomics/shape.py: class RadiomicsShape.                      *)
(*                                                                         *)
(* An object is built from a 3D 0/1 mask and the image spacing; the        *)
(* constructor pads the mask, stores Volume and SurfaceArea, and the eight *)
(* get...FeatureValue methods are then called in any order.                *)
(*                                                                         *)
(* Numbers.  Spacings, Volume and SurfaceArea are exact rationals <<n,d>>. *)
(* The values the descriptors return involve pi, roots and powers; they    *)
(* are kept exactly, as the set of <<base, e>> pairs of the factorisation  *)
(*      value = PRODUCT base^(e/6),   base a prime, or 0 standing for pi,  *)
(* so that two returned values are equal as reals iff the sets are equal.  *)
(* Floating-point rounding is not modelled.                                *)
(***************************************************************************)
EXTENDS Integers, Sequences, FiniteSets

VARIABLES pixelSpacing, cubicMMPerVoxel, maskDtype, maskShape, maskArray,
          matrixCoordinates, targetVoxelArraySize, Volume, SurfaceArea, last

fields == <<pixelSpacing, cubicMMPerVoxel, maskDtype, maskShape, maskArray,
            matrixCoordinates, targetVoxelArraySize, Volume, SurfaceArea>>
vars == <<pixelSpacing, cubicMMPerVoxel, maskDtype, maskShape, maskArray,
          matrixCoordinates, targetVoxelArraySize, Volume, SurfaceArea, last>>

----------------------------------------------------------------------------
(* Bounds of the model *)

\* sparse masks: at most MaxVoxels ROI voxels in a mask of SparseShape
SparseShape == <<2, 2, 2>>
MaxVoxels == 3
\* solid cubes of side 1..MaxSide, filling the mask or with a margin of one
MaxSide == 3
\* three-voxel masks of shape (2, DiamSide, DiamSide) for the diameter search
DiamSide == 5

\* image spacings (x, y, z) in mm: 1 mm or 1/2 mm along every axis, and 1 mm
\* with one axis at 1/2 mm
Spacings == {<<<<1, 1>>, <<1, 1>>, <<1, 1>>>>,
             <<<<1, 2>>, <<1, 2>>, <<1, 2>>>>,
             <<<<1, 2>>, <<1, 1>>, <<1, 1>>>>,
             <<<<1, 1>>, <<1, 2>>, <<1, 1>>>>,
             <<<<1, 1>>, <<1, 1>>, <<1, 2>>>>}
\* element types sitk.GetArrayFromImage can hand back for a label image
DTypes == {"int64", "uint8"}
\* factors by which all spacings are rescaled
ScaleFactors == {<<2, 1>>, <<3, 1>>, <<1, 2>>}

----------------------------------------------------------------------------
(* Exact rational arithmetic: <<n, d>> with d > 0, in lowest terms *)

RECURSIVE GCD(_, _)
GCD(a, b) == IF b = 0 THEN a ELSE GCD(b, a % b)

RNorm(n, d) == LET g == GCD(n, d) IN IF n = 0 THEN <<0, 1>> ELSE <<n \div g, d \div g>>

RInt(k) == <<k, 1>>

RMul(a, b) == LET g1 == GCD(a[1], b[2])
                  g2 == GCD(b[1], a[2])
              IN  IF a[1] = 0 \/ b[1] = 0 THEN <<0, 1>>
                  ELSE RNorm((a[1] \div g1) * (b[1] \div g2), (a[2] \div g2) * (b[2] \div g1))

RAdd(a, b) == RNorm(a[1] * b[2] + b[1] * a[2], a[2] * b[2])

RSub(a, b) == LET n == a[1] * b[2] - b[1] * a[2]
                  m == IF n < 0 THEN -n ELSE n
                  r == RNorm(m, a[2] * b[2])
              IN  IF n < 0 THEN <<-r[1], r[2]>> ELSE r

RLess(a, b) == a[1] * b[2] < b[1] * a[2]

RIsZero(a) == a[1] = 0

RAbs(a) == IF a[1] < 0 THEN <<-a[1], a[2]>> ELSE a

RSquare(a) == RMul(RAbs(a), RAbs(a))

\* the same operations on fractions <<n, d>>, d > 0, not in lowest terms
QSub(a, b) == IF a[2] = b[2] THEN <<a[1] - b[1], a[2]>>
              ELSE <<a[1] * b[2] - b[1] * a[2], a[2] * b[2]>>

QAdd(a, b) == IF a[2] = b[2] THEN <<a[1] + b[1], a[2]>>
              ELSE <<a[1] * b[2] + b[1] * a[2], a[2] * b[2]>>

QSquare(a) == <<a[1] * a[1], a[2] * a[2]>>

QLess(a, b) == a[1] * b[2] < b[1] * a[2]

----------------------------------------------------------------------------
(* Exact values of the descriptors: [kind, f]                              *)
(*   kind "num"  : the positive real PRODUCT base^(e/6) over <<base,e>> in *)
(*                 f, base 0 standing for pi                               *)
(*   kind "zero", "inf", "nan" : the floats 0.0, inf and nan               *)
(*   kind "ValueError", "ZeroDivisionError" : the call raised              *)

\* the smallest divisor of n that is at least d (n itself when n is prime),
\* searched sixteen candidates at a time
RECURSIVE SmallestDivisor(_, _)
SmallestDivisor(n, d) ==
    IF d * d > n THEN n
    ELSE LET found == {e \in d .. d + 15 : e * e <= n /\ n % e = 0}
         IN  IF found # {} THEN CHOOSE e \in found : \A g \in found : e <= g
             ELSE SmallestDivisor(n, d + 16)

RECURSIVE Multiplicity(_, _)
Multiplicity(n, p) == IF n % p = 0 THEN 1 + Multiplicity(n \div p, p) ELSE 0

RECURSIVE StripPrime(_, _)
StripPrime(n, p) == IF n % p = 0 THEN StripPrime(n \div p, p) ELSE n

RECURSIVE Factor(_)
Factor(n) == IF n = 1 THEN {}
             ELSE LET p == SmallestDivisor(n, 2)
                  IN  {<<p, 6 * Multiplicity(n, p)>>} \cup Factor(StripPrime(n, p))

Special(k) == [kind |-> k, f |-> {}]

Num(f) == [kind |-> "num", f |-> f]

NoValue == Special("none")

ExponentOf(f, b) == IF \E x \in f : x[1] = b THEN (CHOOSE x \in f : x[1] = b)[2] ELSE 0

MulF(f, g) == LET bases == {x[1] : x \in f \cup g}
              IN  {<<b, ExponentOf(f, b) + ExponentOf(g, b)>> :
                     b \in {c \in bases : ExponentOf(f, c) + ExponentOf(g, c) # 0}}

InvF(f) == {<<x[1], -x[2]>> : x \in f}

\* a float that holds the rational r
FromRat(r) == IF r[1] = 0 THEN Special("zero")
              ELSE Num(Factor(r[1]) \cup InvF(Factor(r[2])))

FromInt(k) == FromRat(RInt(k))

\* numpy.pi
Pi == Num({<<0, 6>>})

\* x * y
VMul(x, y) == IF x.kind = "zero" \/ y.kind = "zero" THEN Special("zero")
              ELSE Num(MulF(x.f, y.f))

\* x ** (p/q) with p/q > 0
VPow(x, p, q) == IF x.kind = "zero" THEN Special("zero")
                 ELSE Num({<<e[1], (e[2] * p) \div q>> : e \in x.f})

\* x / y where at least one operand is a numpy.float64: a zero divisor gives
\* inf or nan (and a RuntimeWarning), never an exception
NpDiv(x, y) == IF y.kind = "zero"
               THEN (IF x.kind = "zero" THEN Special("nan") ELSE Special("inf"))
               ELSE IF x.kind = "zero" THEN Special("zero")
               ELSE Num(MulF(x.f, InvF(y.f)))

\* x / y where both operands are Python floats: a zero divisor raises
PyDiv(x, y) == IF y.kind = "zero" THEN Special("ZeroDivisionError")
               ELSE IF x.kind = "zero" THEN Special("zero")
               ELSE Num(MulF(x.f, InvF(y.f)))

----------------------------------------------------------------------------
(* Arrays: a 3D array is a function on Cells(shape), shape = <<D, H, W>>,  *)
(* indexed <<k, j, i>> = (z, y, x)                                          *)

Cells(shape) == (0 .. shape[1] - 1) \X (0 .. shape[2] - 1) \X (0 .. shape[3] - 1)

Size(shape) == shape[1] * shape[2] * shape[3]

\* the n-th index of an array of the given shape in row-major (C) order
Unravel(n, shape) == <<n \div (shape[2] * shape[3]), (n \div shape[3]) % shape[2], n % shape[3]>>

\* s[lo] + ... + s[hi]
RECURSIVE SumRange(_, _, _)
SumRange(s, lo, hi) == IF lo > hi THEN 0
                       ELSE IF lo = hi THEN s[lo]
                       ELSE LET mid == (lo + hi) \div 2
                            IN  SumRange(s, lo, mid) + SumRange(s, mid + 1, hi)

\* numpy.sum of a flattened array
NumpySum(s) == SumRange(s, 1, Len(s))

\* elementwise a - b in the array's element type
Subtract(a, b, dtype) == IF dtype = "uint8" THEN (a - b) % 256 ELSE a - b

\* numpy.abs
NumpyAbs(v) == IF v < 0 THEN -v ELSE v

\* sitk.ConstantPadImageFilter with lower and upper bound (1,1,1), constant 0
PadShape(shape) == <<shape[1] + 2, shape[2] + 2, shape[3] + 2>>

ConstantPad(mask, shape) ==
    [c \in Cells(PadShape(shape)) |->
        IF /\ c[1] \in 1 .. shape[1]
           /\ c[2] \in 1 .. shape[2]
           /\ c[3] \in 1 .. shape[3]
        THEN mask[<<c[1] - 1, c[2] - 1, c[3] - 1>>]
        ELSE 0]

\* numpy.where(array != 0), as the list of index triples in row-major order
Where(arr, shape) ==
    SelectSeq([n \in 1 .. Size(shape) |-> Unravel(n - 1, shape)], LAMBDA c : arr[c] # 0)

----------------------------------------------------------------------------
(* The computations of RadiomicsShape, as functions of the object's fields *)

\* reduce(lambda x,y: x*y, self.pixelSpacing)
CubicMM(spacing) == RMul(RMul(spacing[1], spacing[2]), spacing[3])

\* self.targetVoxelArray.size * self.cubicMMPerVoxel
VolumeValue(size, cubic) == RMul(RInt(size), cubic)

\* numpy.abs(maskArray[:,:,1:] - maskArray[:,:,:-1]), flattened
DiffX(arr, shape, dtype) ==
    LET dshape == <<shape[1], shape[2], shape[3] - 1>>
    IN  [n \in 1 .. Size(dshape) |->
            LET c == Unravel(n - 1, dshape)
            IN  NumpyAbs(Subtract(arr[<<c[1], c[2], c[3] + 1>>], arr[c], dtype))]

\* numpy.abs(maskArray[:,1:,:] - maskArray[:,:-1,:]), flattened
DiffY(arr, shape, dtype) ==
    LET dshape == <<shape[1], shape[2] - 1, shape[3]>>
    IN  [n \in 1 .. Size(dshape) |->
            LET c == Unravel(n - 1, dshape)
            IN  NumpyAbs(Subtract(arr[<<c[1], c[2] + 1, c[3]>>], arr[c], dtype))]

\* numpy.abs(maskArray[1:,:,:] - maskArray[:-1,:,:]), flattened
DiffZ(arr, shape, dtype) ==
    LET dshape == <<shape[1] - 1, shape[2], shape[3]>>
    IN  [n \in 1 .. Size(dshape) |->
            LET c == Unravel(n - 1, dshape)
            IN  NumpyAbs(Subtract(arr[<<c[1] + 1, c[2], c[3]>>], arr[c], dtype))]

\* faulty variant: "surfaceArea = surf_y * xz" overwrites the x faces instead of adding
SurfaceAreaOverwritten(arr, shape, spacing, dtype) ==
    LET x == spacing[1]
        y == spacing[2]
        z == spacing[3]
        xz == RMul(x, z)
        xy == RMul(x, y)
        surf_y == NumpySum(DiffY(arr, shape, dtype))
        surf_z == NumpySum(DiffZ(arr, shape, dtype))
    IN  RAdd(RMul(RInt(surf_y), xz), RMul(RInt(surf_z), xy))

SurfaceAreaValue(arr, shape, spacing, dtype) ==
    LET x == spacing[1]
        y == spacing[2]
        z == spacing[3]
        xz == RMul(x, z)
        yz == RMul(y, z)
        xy == RMul(x, y)
        surf_x == NumpySum(DiffX(arr, shape, dtype))
        surf_y == NumpySum(DiffY(arr, shape, dtype))
        surf_z == NumpySum(DiffZ(arr, shape, dtype))
    IN  RAdd(RAdd(RMul(RInt(surf_x), yz), RMul(RInt(surf_y), xz)), RMul(RInt(surf_z), xy))

\* self.SurfaceArea / self.Volume      (numpy.float64 / float)
SurfaceVolumeRatioValue(V, A) == NpDiv(FromRat(A), FromRat(V))

\* Volume / (SurfaceArea**(2.0/3.0) * numpy.sqrt(numpy.pi))
Compactness1Value(V, A) ==
    NpDiv(FromRat(V), VMul(VPow(FromRat(A), 2, 3), VPow(Pi, 1, 2)))

\* (36.0 * numpy.pi) * (Volume**2.0) / (SurfaceArea**3.0)
Compactness2Value(V, A) ==
    NpDiv(VMul(VMul(FromInt(36), Pi), VPow(FromRat(V), 2, 1)), VPow(FromRat(A), 3, 1))

\* R = ((3.0*Volume)/(4.0*numpy.pi))**(1.0/3.0);  SurfaceArea/(4.0*numpy.pi*(R**2.0))
SphericalDisproportionValue(V, A) ==
    LET R == VPow(PyDiv(VMul(FromInt(3), FromRat(V)), VMul(FromInt(4), Pi)), 1, 3)
    IN  NpDiv(FromRat(A), VMul(VMul(FromInt(4), Pi), VPow(R, 2, 1)))

\* faulty variant: 4.0 * Volume in place of 6.0 * Volume
SphericityWithFourV(V, A) ==
    NpDiv(VMul(VPow(Pi, 1, 3), VPow(VMul(FromInt(4), FromRat(V)), 2, 3)), FromRat(A))

\* (numpy.pi**(1.0/3.0) * (6.0 * Volume)**(2.0/3.0)) / SurfaceArea
SphericityValue(V, A) ==
    NpDiv(VMul(VPow(Pi, 1, 3), VPow(VMul(FromInt(6), FromRat(V)), 2, 3)), FromRat(A))

\* numpy.min / numpy.max of column i of the coordinate list (non-empty)
ColumnMin(a, i) == CHOOSE m \in {a[n][i] : n \in 1 .. Len(a)} :
                       \A n \in 1 .. Len(a) : m <= a[n][i]

ColumnMax(a, i) == CHOOSE m \in {a[n][i] : n \in 1 .. Len(a)} :
                       \A n \in 1 .. Len(a) : m >= a[n][i]

\* numpy.vstack([a[a[:,0]==b[0]], a[a[:,1]==b[1]], a[a[:,2]==b[2]]]) * [z,y,x]
EdgeVoxels(a, b, spacing) ==
    LET x == spacing[1]
        y == spacing[2]
        z == spacing[3]
        stacked == SelectSeq(a, LAMBDA c : c[1] = b[1])
                   \o SelectSeq(a, LAMBDA c : c[2] = b[2])
                   \o SelectSeq(a, LAMBDA c : c[3] = b[3])
    IN  [n \in 1 .. Len(stacked) |->
            <<<<stacked[n][1] * z[1], z[2]>>,
              <<stacked[n][2] * y[1], y[2]>>,
              <<stacked[n][3] * x[1], x[2]>>>>]

\* numpy.sum((p - voxel1)**2): the square of the distance of two scaled voxels
SquaredDistance(p, voxel1) ==
    QAdd(QAdd(QSquare(QSub(p[1], voxel1[1])), QSquare(QSub(p[2], voxel1[2]))),
         QSquare(QSub(p[3], voxel1[3])))

\* the square of voxelDistances.max(): sqrt is increasing, so the largest
\* distance is the root of the largest squared distance
\* (rows lo..hi of edgeVoxelsMinCoords, lo <= hi)
RECURSIVE MaxSquaredDistance(_, _, _, _)
MaxSquaredDistance(edgeVoxelsMinCoords, voxel1, lo, hi) ==
    IF lo = hi THEN SquaredDistance(edgeVoxelsMinCoords[lo], voxel1)
    ELSE LET mid == (lo + hi) \div 2
             l == MaxSquaredDistance(edgeVoxelsMinCoords, voxel1, lo, mid)
             r == MaxSquaredDistance(edgeVoxelsMinCoords, voxel1, mid + 1, hi)
         IN  IF QLess(l, r) THEN r ELSE l

\* the largest squared voxelDistances.max() met in iterations lo..hi of the
\* loop over edgeVoxelsMaxCoords (lo <= hi)
RECURSIVE LargestInLoop(_, _, _, _)
LargestInLoop(edgeVoxelsMaxCoords, edgeVoxelsMinCoords, lo, hi) ==
    IF lo = hi
    THEN MaxSquaredDistance(edgeVoxelsMinCoords, edgeVoxelsMaxCoords[lo],
                            1, Len(edgeVoxelsMinCoords))
    ELSE LET mid == (lo + hi) \div 2
             l == LargestInLoop(edgeVoxelsMaxCoords, edgeVoxelsMinCoords, lo, mid)
             r == LargestInLoop(edgeVoxelsMaxCoords, edgeVoxelsMinCoords, mid + 1, hi)
         IN  IF QLess(l, r) THEN r ELSE l

\* faulty variant: maxDiameter starts at 0
DiameterLoopFromZero(edgeVoxelsMaxCoords, edgeVoxelsMinCoords) ==
    LET maxDiameter == RInt(0)
        largest == LargestInLoop(edgeVoxelsMaxCoords, edgeVoxelsMinCoords,
                                 1, Len(edgeVoxelsMaxCoords))
    IN  IF QLess(maxDiameter, largest) THEN RNorm(largest[1], largest[2]) ELSE maxDiameter

\* the square of maxDiameter after the loop: maxDiameter starts at 1 and is
\* replaced by every voxelDistances.max() that is strictly larger
DiameterLoop(edgeVoxelsMaxCoords, edgeVoxelsMinCoords) ==
    LET maxDiameter == RInt(1)
        largest == LargestInLoop(edgeVoxelsMaxCoords, edgeVoxelsMinCoords,
                                 1, Len(edgeVoxelsMaxCoords))
    IN  IF QLess(maxDiameter, largest) THEN RNorm(largest[1], largest[2]) ELSE maxDiameter

Maximum3DDiameterValue(coords, spacing) ==
    IF Len(coords) = 0
    THEN Special("ValueError")     \* numpy.min of a zero-size array
    ELSE LET minBounds == <<ColumnMin(coords, 1), ColumnMin(coords, 2), ColumnMin(coords, 3)>>
             maxBounds == <<ColumnMax(coords, 1), ColumnMax(coords, 2), ColumnMax(coords, 3)>>
             edgeVoxelsMinCoords == EdgeVoxels(coords, minBounds, spacing)
             edgeVoxelsMaxCoords == EdgeVoxels(coords, maxBounds, spacing)
         IN  VPow(FromRat(DiameterLoop(edgeVoxelsMaxCoords, edgeVoxelsMinCoords)), 1, 2)

----------------------------------------------------------------------------
(* Construction *)

RoiMask(shape, roi) == [c \in Cells(shape) |-> IF c \in roi THEN 1 ELSE 0]

\* RadiomicsShape.__init__ on a mask of the given shape and element type
Construct(mask, shape, spacing, dtype) ==
    /\ pixelSpacing = spacing
    /\ cubicMMPerVoxel = CubicMM(spacing)
    /\ maskDtype = dtype
    /\ maskShape = PadShape(shape)
    /\ maskArray = ConstantPad(mask, shape)
    /\ matrixCoordinates = Where(maskArray, maskShape)
    /\ targetVoxelArraySize = Len(matrixCoordinates)
    /\ Volume = VolumeValue(targetVoxelArraySize, cubicMMPerVoxel)
    /\ SurfaceArea = SurfaceAreaValue(maskArray, maskShape, pixelSpacing, maskDtype)
    /\ last = [op |-> "none", val |-> NoValue]

RECURSIVE SubsetsUpTo(_, _)
SubsetsUpTo(S, k) == IF k = 0 THEN {{}}
                     ELSE LET T == SubsetsUpTo(S, k - 1)
                          IN  T \cup {t \cup {c} : t \in T, c \in S}

\* masks of SparseShape with at most MaxVoxels ROI voxels
SparseInputs == {<<SparseShape, roi>> : roi \in SubsetsUpTo(Cells(SparseShape), MaxVoxels)}

\* a solid cube of side L at offset o in a cubic mask of side N
CubeRoi(L, o) == {c \in Cells(<<o[1] + L, o[2] + L, o[3] + L>>) :
                     c[1] >= o[1] /\ c[2] >= o[2] /\ c[3] >= o[3]}

CubeInputs == UNION {UNION {{<<<<N, N, N>>, CubeRoi(L, o)>> :
                                  o \in Cells(<<N - L + 1, N - L + 1, N - L + 1>>)} :
                               N \in L .. L + 1} : L \in 1 .. MaxSide}

\* two voxels in slice z = 0 on the lower y and x borders, one in slice z = 1
TripodInputs == {<<<<2, DiamSide, DiamSide>>, {<<0, 0, a>>, <<0, a, 0>>, <<1, c, d>>}>> :
                    a \in 0 .. DiamSide - 1, c \in 0 .. DiamSide - 1, d \in 0 .. DiamSide - 1}

Init == \E spacing \in Spacings, dtype \in DTypes :
          \E input \in SparseInputs \cup CubeInputs :
             Construct(RoiMask(input[1], input[2]), input[1], spacing, dtype)

InitDiam == \E spacing \in Spacings, dtype \in DTypes :
              \E input \in TripodInputs :
                 Construct(RoiMask(input[1], input[2]), input[1], spacing, dtype)

----------------------------------------------------------------------------
(* The descriptor calls *)

Returned(name, value) == last' = [op |-> name, val |-> value]

getVolumeFeatureValue ==
    /\ Returned("Volume", FromRat(VolumeValue(targetVoxelArraySize, cubicMMPerVoxel)))
    /\ UNCHANGED fields

\* faulty variant: the call adds its result to the stored self.SurfaceArea
getSurfaceAreaAccumulating ==
    /\ Returned("SurfaceArea",
                FromRat(SurfaceAreaValue(maskArray, maskShape, pixelSpacing, maskDtype)))
    /\ SurfaceArea' = RAdd(SurfaceArea,
                           SurfaceAreaValue(maskArray, maskShape, pixelSpacing, maskDtype))
    /\ UNCHANGED <<pixelSpacing, cubicMMPerVoxel, maskDtype, maskShape, maskArray,
                   matrixCoordinates, targetVoxelArraySize, Volume>>

getSurfaceAreaFeatureValue ==
    /\ Returned("SurfaceArea",
                FromRat(SurfaceAreaValue(maskArray, maskShape, pixelSpacing, maskDtype)))
    /\ UNCHANGED fields

getSurfaceVolumeRatioFeatureValue ==
    /\ Returned("SurfaceVolumeRatio", SurfaceVolumeRatioValue(Volume, SurfaceArea))
    /\ UNCHANGED fields

getCompactness1FeatureValue ==
    /\ Returned("Compactness1", Compactness1Value(Volume, SurfaceArea))
    /\ UNCHANGED fields

getCompactness2FeatureValue ==
    /\ Returned("Compactness2", Compactness2Value(Volume, SurfaceArea))
    /\ UNCHANGED fields

getMaximum3DDiameterFeatureValue ==
    /\ Returned("Maximum3DDiameter", Maximum3DDiameterValue(matrixCoordinates, pixelSpacing))
    /\ UNCHANGED fields

getSphericalDisproportionFeatureValue ==
    /\ Returned("SphericalDisproportion", SphericalDisproportionValue(Volume, SurfaceArea))
    /\ UNCHANGED fields

getSphericityFeatureValue ==
    /\ Returned("Sphericity", SphericityValue(Volume, SurfaceArea))
    /\ UNCHANGED fields

Next == \/ getVolumeFeatureValue
        \/ getSurfaceAreaFeatureValue
        \/ getSurfaceVolumeRatioFeatureValue
        \/ getCompactness1FeatureValue
        \/ getCompactness2FeatureValue
        \/ getMaximum3DDiameterFeatureValue
        \/ getSphericalDisproportionFeatureValue
        \/ getSphericityFeatureValue

Spec == Init /\ [][Next]_vars

SpecDiam == InitDiam /\ [][Next]_vars

----------------------------------------------------------------------------
(* Vocabulary of the properties *)

DescriptorNames == {"Volume", "SurfaceArea", "SurfaceVolumeRatio", "Compactness1",
                    "Compactness2", "Maximum3DDiameter", "SphericalDisproportion",
                    "Sphericity"}

\* the value a call of the named descriptor returns in the current state
ReturnValue(name) ==
    CASE name = "Volume" -> FromRat(VolumeValue(targetVoxelArraySize, cubicMMPerVoxel))
      [] name = "SurfaceArea" ->
             FromRat(SurfaceAreaValue(maskArray, maskShape, pixelSpacing, maskDtype))
      [] name = "SurfaceVolumeRatio" -> SurfaceVolumeRatioValue(Volume, SurfaceArea)
      [] name = "Compactness1" -> Compactness1Value(Volume, SurfaceArea)
      [] name = "Compactness2" -> Compactness2Value(Volume, SurfaceArea)
      [] name = "Maximum3DDiameter" -> Maximum3DDiameterValue(matrixCoordinates, pixelSpacing)
      [] name = "SphericalDisproportion" -> SphericalDisproportionValue(Volume, SurfaceArea)
      [] name = "Sphericity" -> SphericityValue(Volume, SurfaceArea)

One == Num({})

Sqrt(r) == VPow(FromRat(r), 1, 2)

UnitSpacing == <<RInt(1), RInt(1), RInt(1)>>

\* the ROI: the cells of the padded array that hold 1
Roi == {c \in Cells(maskShape) : maskArray[c] = 1}

\* the neighbour of cell c one step up the given array axis
Neighbour(c, axis) == [c EXCEPT ![axis] = c[axis] + 1]

\* the pairs of adjacent cells along an axis of which exactly one is in the ROI
ExposedFaces(axis) == {c \in Cells(maskShape) :
                          /\ c[axis] + 1 < maskShape[axis]
                          /\ (c \in Roi) # (Neighbour(c, axis) \in Roi)}

\* area of a face orthogonal to array axis 1 (z), 2 (y), 3 (x)
FaceArea(axis) == CASE axis = 1 -> RMul(pixelSpacing[1], pixelSpacing[2])
                    [] axis = 2 -> RMul(pixelSpacing[1], pixelSpacing[3])
                    [] axis = 3 -> RMul(pixelSpacing[2], pixelSpacing[3])

WeightedFaceCount ==
    RAdd(RAdd(RMul(RInt(Cardinality(ExposedFaces(3))), FaceArea(3)),
              RMul(RInt(Cardinality(ExposedFaces(2))), FaceArea(2))),
         RMul(RInt(Cardinality(ExposedFaces(1))), FaceArea(1)))

\* the ROI is a solid cube of side L
IsCube(L) ==
    LET roi == Roi
    IN  /\ Cardinality(roi) = L * L * L
        /\ \E o \in roi : \A c \in roi : \A i \in 1 .. 3 : c[i] \in o[i] .. o[i] + L - 1

\* squared physical distance of the voxels with indices p and q
PhysicalDistance2(p, q) ==
    RAdd(RAdd(RMul(RInt((p[1] - q[1]) * (p[1] - q[1])), RSquare(pixelSpacing[3])),
              RMul(RInt((p[2] - q[2]) * (p[2] - q[2])), RSquare(pixelSpacing[2]))),
         RMul(RInt((p[3] - q[3]) * (p[3] - q[3])), RSquare(pixelSpacing[1])))

\* the largest element of a non-empty set of rationals
RMax(S) == CHOOSE m \in S : \A r \in S : ~RLess(m, r)

\* voxels on the maximum (resp. minimum) bound of at least one axis
OnMaxBound ==
    LET roi == Roi
    IN  {p \in roi : \E i \in 1 .. 3 : \A q \in roi : q[i] <= p[i]}

OnMinBound ==
    LET roi == Roi
    IN  {p \in roi : \E i \in 1 .. 3 : \A q \in roi : q[i] >= p[i]}

\* D^2: over pairs of one voxel on a maximum and one on a minimum bound
EdgeDiameter2 ==
    LET onMin == OnMinBound
    IN  RMax({PhysicalDistance2(p, q) : p \in OnMaxBound, q \in onMin})

\* over all pairs of ROI voxels
FullDiameter2 ==
    LET roi == Roi
    IN  RMax({PhysicalDistance2(p, q) : p \in roi, q \in roi})

----------------------------------------------------------------------------
(* Properties *)

\* C1: the stored and the returned surface area are the spacing-weighted
\* count of exposed ROI faces of the padded array: one face for every pair
\* of adjacent cells of which exactly one is in the ROI, weighing sy*sz along
\* x, sx*sz along y and sx*sy along z.
C1_SurfaceAreaCountsExposedFaces ==
    /\ SurfaceArea = WeightedFaceCount
    /\ last.op = "SurfaceArea" => last.val = FromRat(WeightedFaceCount)

\* C2: for a solid cube of side L and spacing (1,1,1), Volume = L^3,
\* SurfaceArea = 6*L^2 and SurfaceVolumeRatio returns 6/L.
C2_CubeVolumeAreaRatio ==
    \A L \in 1 .. MaxSide + 1 :
        (IsCube(L) /\ pixelSpacing = UnitSpacing) =>
            /\ Volume = RInt(L * L * L)
            /\ SurfaceArea = RInt(6 * L * L)
            /\ last.op = "Volume" => last.val = FromInt(L * L * L)
            /\ last.op = "SurfaceArea" => last.val = FromInt(6 * L * L)
            /\ last.op = "SurfaceVolumeRatio" => last.val = FromRat(RNorm(6, L))

\* C3: when the two farthest-apart ROI voxels are more than 1 apart,
\* Maximum3DDiameter returns the largest distance over all pairs of ROI voxels.
C3_DiameterOverAllPairs ==
    (last.op = "Maximum3DDiameter" /\ Roi # {}) =>
        LET D2 == FullDiameter2
        IN  RLess(RInt(1), D2) => last.val = Sqrt(D2)

\* C5: multiplying all three spacings by a factor c > 0 leaves the value of
\* Compactness1 unchanged.
C5_Compactness1ScaleInvariant ==
    (last.op = "Compactness1" /\ last.val.kind = "num") =>
        \A c \in ScaleFactors :
            LET scaled == <<RMul(c, pixelSpacing[1]), RMul(c, pixelSpacing[2]),
                            RMul(c, pixelSpacing[3])>>
            IN  Compactness1Value(VolumeValue(targetVoxelArraySize, CubicMM(scaled)),
                                  SurfaceAreaValue(maskArray, maskShape, scaled, maskDtype))
                = last.val

\* C6: with an empty ROI Volume is 0 and no descriptor call raises: the five
\* ratio descriptors return inf or nan and Maximum3DDiameter returns a value.
C6_EmptyRoiNeverRaises ==
    Roi = {} =>
        /\ Volume = RInt(0)
        /\ last.op = "Volume" => last.val.kind = "zero"
        /\ last.op \in {"SurfaceVolumeRatio", "Compactness1", "Compactness2",
                        "SphericalDisproportion", "Sphericity"}
              => last.val.kind \in {"inf", "nan"}
        /\ last.val.kind \notin {"ValueError", "ZeroDivisionError"}

\* C10: the per-axis face counts, and so SurfaceArea, are the same whatever
\* the integer element type of maskArray: they equal the counts obtained
\* with signed arithmetic.
C10_FaceCountIndependentOfDtype ==
    /\ NumpySum(DiffX(maskArray, maskShape, maskDtype))
          = NumpySum(DiffX(maskArray, maskShape, "int64"))
    /\ NumpySum(DiffY(maskArray, maskShape, maskDtype))
          = NumpySum(DiffY(maskArray, maskShape, "int64"))
    /\ NumpySum(DiffZ(maskArray, maskShape, maskDtype))
          = NumpySum(DiffZ(maskArray, maskShape, "int64"))
    /\ SurfaceArea = SurfaceAreaValue(maskArray, maskShape, pixelSpacing, "int64")

\* a * b, or the cap once the product reaches it (a, b >= 0)
SatMul(a, b, cap) == IF b # 0 /\ a > cap \div b THEN cap ELSE a * b

\* 36*pi*V^2 <= A^3 for rationals V, A > 0, shown with pi < 22/7: A^3/V^2,
\* built as (A/V)*(A/V)*A in lowest terms, is at least 36*22/7
IsoperimetricBound(V, A) ==
    LET cap == 1000000000
        r == RMul(A, <<V[2], V[1]>>)
        g1 == GCD(r[1] * r[1], A[2])
        g2 == GCD(A[1], r[2] * r[2])
        n == SatMul((r[1] * r[1]) \div g1, A[1] \div g2, cap)
        d == ((r[2] * r[2]) \div g2) * (A[2] \div g1)
    IN  n >= (36 * 22 * d + 6) \div 7

\* C4: with at least one ROI voxel, Volume and SurfaceArea are positive and
\* 36*pi*V^2 <= A^3, so that Compactness2 returns a number in (0,1].
C4_Compactness2InUnitInterval ==
    Roi # {} =>
        /\ Volume[1] > 0
        /\ SurfaceArea[1] > 0
        /\ IsoperimetricBound(Volume, SurfaceArea)
        /\ last.op = "Compactness2" => last.val.kind = "num"

C4_Witness ==
    /\ last.op = "Compactness2"
    /\ Cardinality(Roi) >= 2
    /\ pixelSpacing[1] # pixelSpacing[3]

\* C7: for Volume > 0 and SurfaceArea > 0 the product of the values returned
\* by Sphericity and SphericalDisproportion is exactly 1.
C7_SphericityTimesDisproportionIsOne ==
    (Volume[1] > 0 /\ SurfaceArea[1] > 0) =>
        /\ last.op = "Sphericity" =>
              VMul(last.val, SphericalDisproportionValue(Volume, SurfaceArea)) = One
        /\ last.op = "SphericalDisproportion" =>
              VMul(last.val, SphericityValue(Volume, SurfaceArea)) = One

C7_Witness ==
    /\ last.op = "Sphericity"
    /\ last.val.kind = "num"
    /\ last.val # One
    /\ Cardinality(Roi) >= 2

\* C8: every descriptor call leaves pixelSpacing, cubicMMPerVoxel, the padded
\* maskArray, the coordinates, Volume and SurfaceArea unchanged, and a
\* descriptor returns the same value every time: whenever a further call is
\* made, the descriptor called last would return again the value it returned,
\* and calling it again does.
C8_CallsHaveNoSideEffects ==
    [][/\ fields' = fields
       /\ last.op \in DescriptorNames => ReturnValue(last.op) = last.val
       /\ last'.op = last.op => last'.val = last.val]_vars

C8_Witness ==
    /\ last.op = "SurfaceArea"
    /\ last.val.kind = "num"
    /\ maskDtype = "int64"

C9_WitnessCube ==
    /\ last.op = "Maximum3DDiameter"
    /\ IsCube(3)
    /\ pixelSpacing = UnitSpacing
    /\ last.val = Sqrt(RInt(12))

\* the same statements for arrays of a signed element type only
SignedC1 == maskDtype = "int64" => C1_SurfaceAreaCountsExposedFaces

SignedC2 == maskDtype = "int64" => C2_CubeVolumeAreaRatio

====
